---- MODULE Spec2Model ----
(***************************************************************************)
(* KYC mini backend (src/index.js): an HTTP gateway that resolves images   *)
(* from inline base64 or an allow-listed remote URL and forwards them to   *)
(* the upstream KYC engine.                                                *)
(*                                                                         *)
(* JavaScript strings are modelled as sequences of one-character strings,  *)
(* so that trim, startsWith, endsWith, indexOf and slice are computed the  *)
(* way the code computes them.  null/undefined is the one-element sequence *)
(* NULL, whose element is no character.                                    *)
(***************************************************************************)
EXTENDS Integers, Sequences, FiniteSets, TLC

----------------------------------------------------------------------------
(* Strings *)

NULL == <<"<null>">>

HttpsProtocol == <<"h", "t", "t", "p", "s", ":">>
ResCloudinaryCom == <<"r", "e", "s", ".", "c", "l", "o", "u", "d", "i", "n", "a", "r", "y", ".", "c", "o", "m">>
DotCloudinaryCom == <<".", "c", "l", "o", "u", "d", "i", "n", "a", "r", "y", ".", "c", "o", "m">>
DataColon == <<"d", "a", "t", "a", ":">>
DataUriPrefix == <<"d", "a", "t", "a", ":", "i", "m", "a", "g", "e", "/", "j", "p", "e", "g", ";", "b", "a", "s", "e", "6", "4", ",">>
PathVerifyCnic == <<"/", "v", "e", "r", "i", "f", "y", "-", "c", "n", "i", "c">>
PathFaceVerify == <<"/", "f", "a", "c", "e", "-", "v", "e", "r", "i", "f", "y">>
PathShopVerify == <<"/", "s", "h", "o", "p", "-", "v", "e", "r", "i", "f", "y">>

UpperCase == <<"A", "B", "C", "D", "E", "F", "G", "H", "I", "J", "K", "L", "M", "N", "O", "P", "Q", "R", "S", "T", "U", "V", "W", "X", "Y", "Z">>
LowerCase == <<"a", "b", "c", "d", "e", "f", "g", "h", "i", "j", "k", "l", "m", "n", "o", "p", "q", "r", "s", "t", "u", "v", "w", "x", "y", "z">>
Digits == <<"0", "1", "2", "3", "4", "5", "6", "7", "8", "9">>

Range(s) == {s[i] : i \in 1..Len(s)}

IsSpace(c) == c \in {" ", "\t", "\n", "\r"}

IsAlpha(c) == c \in Range(UpperCase) \cup Range(LowerCase)

IsAlnum(c) == IsAlpha(c) \/ c \in Range(Digits)

ToLowerChar(c) ==
    IF c \in Range(UpperCase)
    THEN LowerCase[CHOOSE i \in 1..Len(UpperCase) : UpperCase[i] = c]
    ELSE c

\* String.prototype.toLowerCase
ToLowerCase(s) == [i \in 1..Len(s) |-> ToLowerChar(s[i])]

\* s.slice(from) with a 0-based index, as in JavaScript
SliceFrom(s, from) == IF from >= Len(s) THEN <<>> ELSE SubSeq(s, from + 1, Len(s))

\* s.slice(0, to)
SliceTo(s, to) == IF to <= 0 THEN <<>> ELSE SubSeq(s, 1, IF to > Len(s) THEN Len(s) ELSE to)

StartsWith(s, p) == Len(s) >= Len(p) /\ SubSeq(s, 1, Len(p)) = p

EndsWith(s, p) == Len(s) >= Len(p) /\ SubSeq(s, Len(s) - Len(p) + 1, Len(s)) = p

\* s.indexOf(c): the 0-based index of the first c, or -1
IndexOf(s, c) ==
    IF \E i \in 1..Len(s) : s[i] = c
    THEN (CHOOSE i \in 1..Len(s) : s[i] = c /\ \A j \in 1..(i - 1) : s[j] # c) - 1
    ELSE -1

RECURSIVE TrimStart(_)
TrimStart(s) == IF s # <<>> /\ IsSpace(Head(s)) THEN TrimStart(Tail(s)) ELSE s

RECURSIVE TrimEnd(_)
TrimEnd(s) == IF s # <<>> /\ IsSpace(s[Len(s)]) THEN TrimEnd(SubSeq(s, 1, Len(s) - 1)) ELSE s

\* String.prototype.trim
Trim(s) == TrimEnd(TrimStart(s))

NotSpace(c) == ~IsSpace(c)

\* s.replace(/\s+/g, '')
RemoveWhitespace(s) == SelectSeq(s, NotSpace)

\* JavaScript truthiness of a string-or-null value
Truthy(v) == v # NULL /\ v # <<>>

\* a || b
OrElse(a, b) == IF Truthy(a) THEN a ELSE b

----------------------------------------------------------------------------
(* Errors: the Error objects the code throws, by message template.  name   *)
(* is the JavaScript error name the catch blocks inspect.                  *)

NoErr == [name |-> "", kind |-> "none", label |-> "", url |-> <<>>, status |-> 0, body |-> "", cause |-> "", ms |-> 0]

MkErr(name, kind, label, url) == [NoErr EXCEPT !.name = name, !.kind = kind, !.label = label, !.url = url]

----------------------------------------------------------------------------
(* Remote URL guard *)

normalizeRemoteUrl(input) ==
    IF input = NULL THEN NULL
    ELSE LET trimmed == Trim(input) IN
         IF trimmed = <<>> THEN NULL ELSE RemoveWhitespace(trimmed)

RECURSIVE SkipSlashes(_)
SkipSlashes(s) == IF s # <<>> /\ Head(s) \in {"/", "\\"} THEN SkipSlashes(Tail(s)) ELSE s

AuthorityEnd(s) ==
    IF \E i \in 1..Len(s) : s[i] \in {"/", "\\", "?", "#"}
    THEN (CHOOSE i \in 1..Len(s) : s[i] \in {"/", "\\", "?", "#"} /\ \A j \in 1..(i - 1) : s[j] \notin {"/", "\\", "?", "#"}) - 1
    ELSE Len(s)

\* The special schemes of the URL standard that have a host
SpecialSchemes == {<<"h", "t", "t", "p">>, <<"h", "t", "t", "p", "s">>, <<"f", "t", "p">>, <<"w", "s">>, <<"w", "s", "s">>}

\* new URL(urlString), for the strings of the model: no userinfo, port,
\* percent-escape or IP literal.  ok = FALSE is the TypeError of new URL.
ParseUrl(urlString) ==
    LET colon == IndexOf(urlString, ":")
        scheme == ToLowerCase(SliceTo(urlString, colon))
        rest == SkipSlashes(SliceFrom(urlString, colon + 1))
        host == SliceTo(rest, AuthorityEnd(rest))
        bad == [ok |-> FALSE, protocol |-> <<>>, hostname |-> <<>>]
    IN  IF colon <= 0 THEN bad
        ELSE IF ~IsAlpha(urlString[1]) \/ \E i \in 1..colon : ~(IsAlnum(urlString[i]) \/ urlString[i] \in {"+", "-", "."}) THEN bad
        ELSE IF scheme \in SpecialSchemes
             THEN IF host = <<>> \/ \E i \in 1..Len(host) : IsSpace(host[i]) THEN bad
                  ELSE [ok |-> TRUE, protocol |-> scheme \o <<":">>, hostname |-> ToLowerCase(host)]
        ELSE [ok |-> TRUE, protocol |-> scheme \o <<":">>, hostname |-> <<>>]

\* Mutant: the suffix is matched without its leading dot.
assertAllowedRemoteUrl_NoDot(urlString) ==
    LET uri == ParseUrl(urlString)
        host == ToLowerCase(uri.hostname)
        allowed == host = ResCloudinaryCom \/ EndsWith(host, Tail(DotCloudinaryCom))
    IN  IF ~uri.ok THEN MkErr("TypeError", "InvalidUrl", "", urlString)
        ELSE IF uri.protocol # HttpsProtocol THEN MkErr("Error", "DisallowedScheme", "", urlString)
        ELSE IF ~allowed THEN MkErr("Error", "DisallowedHost", "", host)
        ELSE NoErr

\* Mutant: the host is checked before the scheme.
assertAllowedRemoteUrl_HostFirst(urlString) ==
    LET uri == ParseUrl(urlString)
        host == ToLowerCase(uri.hostname)
        allowed == host = ResCloudinaryCom \/ EndsWith(host, DotCloudinaryCom)
    IN  IF ~uri.ok THEN MkErr("TypeError", "InvalidUrl", "", urlString)
        ELSE IF ~allowed THEN MkErr("Error", "DisallowedHost", "", host)
        ELSE IF uri.protocol # HttpsProtocol THEN MkErr("Error", "DisallowedScheme", "", urlString)
        ELSE NoErr

\* The error assertAllowedRemoteUrl throws, or NoErr when it returns.
assertAllowedRemoteUrl(urlString) ==
    LET uri == ParseUrl(urlString)
        host == ToLowerCase(uri.hostname)
        allowed == host = ResCloudinaryCom \/ EndsWith(host, DotCloudinaryCom)
    IN  IF ~uri.ok THEN MkErr("TypeError", "InvalidUrl", "", urlString)
        ELSE IF uri.protocol # HttpsProtocol THEN MkErr("Error", "DisallowedScheme", "", urlString)
        ELSE IF ~allowed THEN MkErr("Error", "DisallowedHost", "", host)
        ELSE NoErr

----------------------------------------------------------------------------
(* Base64 *)

\* Mutant: the data: prefix is looked for before the input is trimmed, and
\* the remainder is taken from the untrimmed input.
normalizeBase64_PrefixBeforeTrim(b64) ==
    IF ~Truthy(b64) THEN NULL
    ELSE IF Trim(b64) = <<>> THEN NULL
    ELSE IF StartsWith(b64, DataColon) /\ IndexOf(b64, ",") >= 0
         THEN SliceFrom(b64, IndexOf(b64, ",") + 1)
         ELSE Trim(b64)

normalizeBase64(b64) ==
    IF ~Truthy(b64) THEN NULL
    ELSE LET s == Trim(b64) IN
         IF s = <<>> THEN NULL
         ELSE IF StartsWith(s, DataColon) /\ IndexOf(s, ",") >= 0
              THEN SliceFrom(s, IndexOf(s, ",") + 1)
              ELSE s

asImageDataUri(b64) ==
    LET raw == normalizeBase64(b64) IN
    IF ~Truthy(raw) THEN NULL ELSE DataUriPrefix \o raw

B64Alphabet == <<"A", "B", "C", "D", "E", "F", "G", "H", "I", "J", "K", "L", "M", "N", "O", "P", "Q", "R", "S", "T", "U", "V", "W", "X", "Y", "Z", "a", "b", "c", "d", "e", "f", "g", "h", "i", "j", "k", "l", "m", "n", "o", "p", "q", "r", "s", "t", "u", "v", "w", "x", "y", "z", "0", "1", "2", "3", "4", "5", "6", "7", "8", "9", "+", "/">>

\* Buffer.from(arrayBuffer).toString('base64'), bytes as numbers 0..255
RECURSIVE ToBase64(_)
ToBase64(bytes) ==
    IF bytes = <<>> THEN <<>>
    ELSE LET n == Len(bytes)
             b1 == bytes[1]
             b2 == IF n >= 2 THEN bytes[2] ELSE 0
             b3 == IF n >= 3 THEN bytes[3] ELSE 0
             c1 == b1 \div 4
             c2 == (b1 % 4) * 16 + (b2 \div 16)
             c3 == (b2 % 16) * 4 + (b3 \div 64)
             c4 == b3 % 64
         IN  << B64Alphabet[c1 + 1], B64Alphabet[c2 + 1],
                IF n >= 2 THEN B64Alphabet[c3 + 1] ELSE "=",
                IF n >= 3 THEN B64Alphabet[c4 + 1] ELSE "=" >>
             \o ToBase64(SliceFrom(bytes, 3))

----------------------------------------------------------------------------
(* Upstream configuration and response parsing *)

\* base.replace(/\/$/, '')
StripTrailingSlash(s) == IF s # <<>> /\ s[Len(s)] = "/" THEN SubSeq(s, 1, Len(s) - 1) ELSE s

\* kycBaseUrl(): [err, base]; env is process.env.KYC_API_URL (NULL if unset)
kycBaseUrl(env) ==
    LET base == StripTrailingSlash(Trim(OrElse(env, <<>>))) IN
    IF base = <<>>
    THEN [err |-> MkErr("Error", "ConfigMissing", "", <<>>), base |-> <<>>]
    ELSE [err |-> NoErr, base |-> base]

\* The response texts the upstream engine sends in the model, and the ones
\* among them JSON.parse accepts.
UpstreamTexts == {"{\"match\":true}", "not json"}

JsonTexts == {"{\"match\":true}"}

NoData == [kind |-> "none", text |-> ""]

\* lines 115-121: JSON.parse(text), or { raw: text } when it throws
ParseOrRaw(text) ==
    IF text \in JsonTexts THEN [kind |-> "json", text |-> text] ELSE [kind |-> "raw", text |-> text]

\* resp.ok
IsOk(status) == status >= 200 /\ status <= 299

\* String(e?.name || '').toLowerCase().includes('abort')
IsAbort(e) == e.name \in {"AbortError"}

\* e.message: what the handlers put in { error: ... }
Message(e) == [e EXCEPT !.name = ""]

----------------------------------------------------------------------------
(* Endpoints, image slots and the field aliases of each slot *)

Endpoints == {"verify-cnic", "face-verify", "shop-verify"}

Slots == {1, 2}

NumSlots(ep) == IF ep = "face-verify" THEN 2 ELSE 1

Label(ep, s) ==
    CASE ep = "verify-cnic" -> "CNIC image"
      [] ep = "face-verify" -> IF s = 1 THEN "CNIC image" ELSE "selfie image"
      [] OTHER -> "shop image"

InlineFields(ep, s) ==
    CASE ep = "verify-cnic" -> <<"image", "cnicFrontBase64", "cnicFrontImageBase64">>
      [] ep = "face-verify" -> IF s = 1 THEN <<"image1", "img1">> ELSE <<"image2", "img2">>
      [] OTHER -> <<"image", "shopImage", "shopImageBase64">>

UrlFields(ep, s) ==
    CASE ep = "verify-cnic" -> <<"cnicFrontUrl", "imageUrl", "cnicImageUrl">>
      [] ep = "face-verify" -> IF s = 1 THEN <<"image1Url", "cnicImageUrl">> ELSE <<"image2Url", "selfieImageUrl">>
      [] OTHER -> <<"shopImageUrl", "imageUrl">>

Fields ==
    {"image", "cnicFrontBase64", "cnicFrontImageBase64", "cnicFrontUrl", "imageUrl",
     "cnicImageUrl", "image1", "img1", "image2", "img2", "image1Url", "image2Url",
     "selfieImageUrl", "shopImage", "shopImageBase64", "shopImageUrl"}

EndpointPath(ep) ==
    CASE ep = "verify-cnic" -> PathVerifyCnic
      [] ep = "face-verify" -> PathFaceVerify
      [] OTHER -> PathShopVerify

MissingImageKind(ep) ==
    CASE ep = "verify-cnic" -> "MissingCnicImage"
      [] ep = "face-verify" -> "MissingFaceImages"
      [] OTHER -> "MissingShopImage"

\* input.a || input.b || input.c
RECURSIVE OrChain(_, _)
OrChain(body, fields) ==
    IF Len(fields) = 1 THEN body[fields[1]]
    ELSE OrElse(body[fields[1]], OrChain(body, Tail(fields)))

\* normalizeBase64(input.image || ...), for a slot of the endpoint
InlineImage(ep, s, body) ==
    IF s > NumSlots(ep) THEN NULL ELSE normalizeBase64(OrChain(body, InlineFields(ep, s)))

\* input.cnicFrontUrl || ... || null
ImageUrl(ep, s, body) ==
    IF s > NumSlots(ep) THEN NULL ELSE OrElse(OrChain(body, UrlFields(ep, s)), NULL)

\* The JSON body of the upstream POST
UpstreamPayload(ep, img) ==
    [image1 |-> img[1], image1DataUri |-> asImageDataUri(img[1]),
     image2 |-> img[2], image2DataUri |-> asImageDataUri(img[2])]

NoPayload == [image1 |-> NULL, image1DataUri |-> NULL, image2 |-> NULL, image2DataUri |-> NULL]

----------------------------------------------------------------------------
(* Inputs of the model *)

InlineRaw == <<"Q", "U", "J", "D">>
InlineDataUri == <<"d", "a", "t", "a", ":", "i", "m", "a", "g", "e", "/", "p", "n", "g", ";", "b", "a", "s", "e", "6", "4", ",", "Q", "U", "J", "D">>
UrlGood == <<"h", "t", "t", "p", "s", ":", "/", "/", "r", "e", "s", ".", "c", "l", "o", "u", "d", "i", "n", "a", "r", "y", ".", "c", "o", "m", "/", "x", ".", "j", "p", "g">>
UrlHttp == <<"h", "t", "t", "p", ":", "/", "/", "r", "e", "s", ".", "c", "l", "o", "u", "d", "i", "n", "a", "r", "y", ".", "c", "o", "m", "/", "x", ".", "j", "p", "g">>
UrlEvil == <<"h", "t", "t", "p", "s", ":", "/", "/", "e", "v", "i", "l", ".", "c", "o", "m", "/", "x", ".", "j", "p", "g">>
UrlInvalid == <<"n", "o", "t", " ", "a", " ", "u", "r", "l">>
KycUrlSet == <<"h", "t", "t", "p", ":", "/", "/", "1", "2", "7", ".", "0", ".", "0", ".", "1", ":", "7", "8", "6", "0", "/">>
Blank == <<" ">>

InlineValues == {NULL, Blank, InlineRaw, InlineDataUri}

UrlValues == {NULL, <<>>, Blank, UrlGood, UrlHttp, UrlEvil, UrlInvalid}

KycUrlValues == {NULL, Blank, KycUrlSet}

Timeout250 == <<"2", "5", "0">>
TimeoutWord == <<"a", "b", "c">>
TimeoutSuffixed == <<" ", "1", "5", "x">>

KycEngineTimeoutValues == {NULL, <<>>, Timeout250, TimeoutWord, TimeoutSuffixed}

\* The environments the process is started in
EnvValues ==
    {<<u, NULL>> : u \in KycUrlValues} \cup {<<KycUrlSet, t>> : t \in KycEngineTimeoutValues}

EmptyBody == [f \in Fields |-> NULL]

\* Request bodies in which each slot's first inline alias and first URL alias
\* carry a value and every other field is absent.
PrimaryBodies(ep) ==
    IF NumSlots(ep) = 1
    THEN {[EmptyBody EXCEPT ![InlineFields(ep, 1)[1]] = i1, ![UrlFields(ep, 1)[1]] = u1] :
             i1 \in InlineValues, u1 \in UrlValues}
    ELSE {[EmptyBody EXCEPT ![InlineFields(ep, 1)[1]] = v[1], ![UrlFields(ep, 1)[1]] = v[2],
                            ![InlineFields(ep, 2)[1]] = v[3], ![UrlFields(ep, 2)[1]] = v[4]] :
             v \in InlineValues \X UrlValues \X InlineValues \X UrlValues}

InlineNested == <<"d", "a", "t", "a", ":", "a", ",", "d", "a", "t", "a", ":", "b", ",", "Q", "U", "J", "D">>
InlineSpaced == <<"d", "a", "t", "a", ":", "a", ",", " ", "Q", "U", "J", "D">>

\* A body whose second slot, if the endpoint has one, is given inline
SecondSlotGiven(ep) ==
    IF NumSlots(ep) = 2 THEN [EmptyBody EXCEPT ![InlineFields(ep, 2)[1]] = InlineRaw] ELSE EmptyBody

\* Request bodies whose first slot is given through its first two inline
\* aliases and its first two URL aliases.
AliasBodies(ep) ==
    {[SecondSlotGiven(ep) EXCEPT ![InlineFields(ep, 1)[1]] = v[1], ![InlineFields(ep, 1)[2]] = v[2],
                                 ![UrlFields(ep, 1)[1]] = v[3], ![UrlFields(ep, 1)[2]] = v[4]] :
        v \in {NULL, <<>>, Blank} \X {NULL, InlineRaw} \X {NULL, Blank} \X {NULL, UrlGood}}

\* Request bodies whose first slot is a data URI with a second data: prefix
\* or with whitespace after its comma.
DataUriBodies(ep) ==
    {[SecondSlotGiven(ep) EXCEPT ![InlineFields(ep, 1)[1]] = i] : i \in {InlineNested, InlineSpaced}}

RequestBodies(ep) == PrimaryBodies(ep) \cup AliasBodies(ep) \cup DataUriBodies(ep)

\* The request bodies of the liveness specification: each slot absent, inline
\* or a URL, allowed or not.
LiveBodies(ep) ==
    {b \in PrimaryBodies(ep) :
        \A s \in 1..NumSlots(ep) :
            /\ b[InlineFields(ep, s)[1]] \in {NULL, InlineRaw}
            /\ b[UrlFields(ep, s)[1]] \in {NULL, UrlGood, UrlEvil}}

DownloadStatuses == {200, 404}

MaxRedirects == 1

\* Where the remote can redirect the GET to
RedirectTargets == {UrlGood, UrlEvil}

DownloadBodies == {<<>>, <<77>>, <<77, 97, 110>>}

DownloadErrorTexts == {"", "Not Found"}

UpstreamStatuses == {200, 422, 500}

\* The request tasks of a behaviour
Tasks == {"t1"}

Calls == {"dl1", "dl2", "post"}

DlCall(s) == IF s = 1 THEN "dl1" ELSE "dl2"

----------------------------------------------------------------------------
(* State *)

VARIABLES
    kycApiUrl,   \* process.env.KYC_API_URL
    kycEngineTimeoutMs,  \* process.env.KYC_ENGINE_TIMEOUT_MS
    pc,          \* where each request task is suspended
    endpoint,    \* the route of the request
    input,       \* req.body
    slot,        \* the image slot the handler is resolving
    image,       \* image / image1, image2
    imageUrl,    \* imageUrl / image1Url, image2Url
    timer,       \* per call: the setTimeout handle ("none", "pending", "fired", "cleared")
    net,         \* per call: the fetch ("none", "inflight", "headers", "complete", "failed", "aborted")
    fetches,     \* per call: how many times fetchFn was invoked
    callState,   \* per call: "none", "running", "returned", "threw"
    callErr,     \* per call: the error the call threw
    exc,         \* the exception in flight in the task
    resp,        \* the Response the pending fetch resolved with
    payload,     \* the body of the upstream POST
    upstream,    \* what postJson returned
    response,    \* what the handler sent with res.status().json()
    sent,        \* how many responses the handler sent
    resolvedTimeoutMs,   \* postJson's resolvedTimeoutMs, the delay its timer was armed with
    hops,        \* the URLs the GET in flight has requested, redirects included
    gPc, gUrl, gOut,  \* the guard called on its own: position, argument, outcome
    gScheme, gHost,   \* the scheme and host texts gUrl was written from
    bPc, bIn, bOut    \* normalizeBase64 called on its own: position, argument, result

vars == <<kycApiUrl, kycEngineTimeoutMs, pc, endpoint, input, slot, image, imageUrl, timer,
          net, fetches, callState, callErr, exc, resp, payload, upstream, response, sent,
          resolvedTimeoutMs, hops, gPc, gUrl, gOut, gScheme, gHost, bPc, bIn, bOut>>

guardVars == <<gPc, gUrl, gOut, gScheme, gHost, bPc, bIn, bOut>>

NoResp == [status |-> 0, text |-> ""]

NoUpstream == [returned |-> FALSE, ok |-> FALSE, status |-> 0, data |-> NoData]

NoResponse == [status |-> 0, error |-> NoErr, data |-> NoData]

TaskInit(T) ==
    /\ pc = [r \in T |-> "idle"]
    /\ endpoint = [r \in T |-> "none"]
    /\ input = [r \in T |-> EmptyBody]
    /\ slot = [r \in T |-> 1]
    /\ image = [r \in T |-> <<NULL, NULL>>]
    /\ imageUrl = [r \in T |-> <<NULL, NULL>>]
    /\ timer = [r \in T |-> [c \in Calls |-> "none"]]
    /\ net = [r \in T |-> [c \in Calls |-> "none"]]
    /\ fetches = [r \in T |-> [c \in Calls |-> 0]]
    /\ callState = [r \in T |-> [c \in Calls |-> "none"]]
    /\ callErr = [r \in T |-> [c \in Calls |-> NoErr]]
    /\ exc = [r \in T |-> NoErr]
    /\ resp = [r \in T |-> NoResp]
    /\ payload = [r \in T |-> NoPayload]
    /\ upstream = [r \in T |-> NoUpstream]
    /\ response = [r \in T |-> NoResponse]
    /\ sent = [r \in T |-> 0]
    /\ resolvedTimeoutMs = [r \in T |-> 0]
    /\ hops = [r \in T |-> <<>>]

GuardIdle ==
    /\ gPc = "off"
    /\ gUrl = <<>>
    /\ gOut = NoErr
    /\ gScheme = <<>>
    /\ gHost = <<>>

Base64Idle ==
    /\ bPc = "off"
    /\ bIn = NULL
    /\ bOut = NULL

Init ==
    /\ \E env \in EnvValues : kycApiUrl = env[1] /\ kycEngineTimeoutMs = env[2]
    /\ TaskInit(Tasks)
    /\ GuardIdle
    /\ Base64Idle

----------------------------------------------------------------------------
(* The handlers, up to the first network call *)

\* app.post(path, async (req, res) => ...): the handler reads req.body, the
\* inline image of every slot and the URL of every slot.
Receive(r) ==
    /\ pc[r] = "idle"
    /\ \E ep \in Endpoints : \E body \in RequestBodies(ep) :
          /\ endpoint' = [endpoint EXCEPT ![r] = ep]
          /\ input' = [input EXCEPT ![r] = body]
          /\ image' = [image EXCEPT ![r] = <<InlineImage(ep, 1, body), InlineImage(ep, 2, body)>>]
          /\ imageUrl' = [imageUrl EXCEPT ![r] = <<ImageUrl(ep, 1, body), ImageUrl(ep, 2, body)>>]
    /\ slot' = [slot EXCEPT ![r] = 1]
    /\ pc' = [pc EXCEPT ![r] = "resolve"]
    /\ UNCHANGED <<kycApiUrl, kycEngineTimeoutMs, timer, net, fetches, callState, callErr, exc, resp, payload,
                   upstream, response, sent, resolvedTimeoutMs, hops, guardVars>>

\* Mutant: a URL is fetched whenever one is given, if (imageUrl).
NeedsDownload_UrlFirst(img, url) == Truthy(url)

\* if (!image && imageUrl)
NeedsDownload(img, url) == ~Truthy(img) /\ Truthy(url)

\* Mutant: the URL is normalized but the allow-list is not consulted.
DownloadPrecheck_NoGuard(urlString, label) ==
    LET normalized == normalizeRemoteUrl(urlString) IN
    IF ~Truthy(normalized) THEN MkErr("Error", "MissingUrl", label, <<>>)
    ELSE NoErr

\* Lines 53-55 of downloadRemoteImageAsBase64: the error thrown before the
\* fetch, or NoErr.
DownloadPrecheck(urlString, label) ==
    LET normalized == normalizeRemoteUrl(urlString) IN
    IF ~Truthy(normalized) THEN MkErr("Error", "MissingUrl", label, <<>>)
    ELSE assertAllowedRemoteUrl(normalized)

\* The slot needs no download: the handler goes on to the next slot.
SkipSlot(r) ==
    /\ pc[r] = "resolve"
    /\ slot[r] <= NumSlots(endpoint[r])
    /\ ~NeedsDownload(image[r][slot[r]], imageUrl[r][slot[r]])
    /\ slot' = [slot EXCEPT ![r] = @ + 1]
    /\ UNCHANGED <<kycApiUrl, kycEngineTimeoutMs, pc, endpoint, input, image, imageUrl, timer, net, fetches,
                   callState, callErr, exc, resp, payload, upstream, response, sent, resolvedTimeoutMs, hops, guardVars>>

\* downloadRemoteImageAsBase64 throws before its try block.
DownloadRejected(r) ==
    /\ pc[r] = "resolve"
    /\ slot[r] <= NumSlots(endpoint[r])
    /\ NeedsDownload(image[r][slot[r]], imageUrl[r][slot[r]])
    /\ LET e == DownloadPrecheck(imageUrl[r][slot[r]], Label(endpoint[r], slot[r]))
           c == DlCall(slot[r])
       IN  /\ e # NoErr
           /\ callState' = [callState EXCEPT ![r][c] = "threw"]
           /\ callErr' = [callErr EXCEPT ![r][c] = e]
           /\ exc' = [exc EXCEPT ![r] = e]
    /\ pc' = [pc EXCEPT ![r] = "catch"]
    /\ UNCHANGED <<kycApiUrl, kycEngineTimeoutMs, endpoint, input, slot, image, imageUrl, timer, net, fetches,
                   resp, payload, upstream, response, sent, resolvedTimeoutMs, hops, guardVars>>

\* downloadRemoteImageAsBase64 passes the guard, arms its timer and calls fetchFn.
DownloadStart(r) ==
    /\ pc[r] = "resolve"
    /\ slot[r] <= NumSlots(endpoint[r])
    /\ NeedsDownload(image[r][slot[r]], imageUrl[r][slot[r]])
    /\ DownloadPrecheck(imageUrl[r][slot[r]], Label(endpoint[r], slot[r])) = NoErr
    /\ LET c == DlCall(slot[r])
       IN  /\ callState' = [callState EXCEPT ![r][c] = "running"]
           /\ timer' = [timer EXCEPT ![r][c] = "pending"]
           /\ fetches' = [fetches EXCEPT ![r][c] = @ + 1]
           /\ net' = [net EXCEPT ![r][c] = "inflight"]
    /\ hops' = [hops EXCEPT ![r] = <<normalizeRemoteUrl(imageUrl[r][slot[r]])>>]
    /\ pc' = [pc EXCEPT ![r] = "dl_fetch"]
    /\ UNCHANGED <<kycApiUrl, kycEngineTimeoutMs, endpoint, input, slot, image, imageUrl, callErr, exc, resp,
                   payload, upstream, response, sent, resolvedTimeoutMs, guardVars>>

\* res.status(status).json(body)
Respond(r, status, err, data) ==
    /\ response' = [response EXCEPT ![r] = [status |-> status, error |-> err, data |-> data]]
    /\ sent' = [sent EXCEPT ![r] = @ + 1]
    /\ pc' = [pc EXCEPT ![r] = "done"]

AllResolved(r) == slot[r] > NumSlots(endpoint[r])

\* Mutant: only the first slot is tested, if (!image1).
SomeImageMissing_FirstOnly(r) == ~Truthy(image[r][1])

\* if (!image) / if (!image1 || !image2)
SomeImageMissing(r) == \E s \in 1..NumSlots(endpoint[r]) : ~Truthy(image[r][s])

\* return res.status(400).json({ error: 'Missing ... image ...' })
MissingImage(r) ==
    /\ pc[r] = "resolve"
    /\ AllResolved(r)
    /\ SomeImageMissing(r)
    /\ Respond(r, 400, MkErr("", MissingImageKind(endpoint[r]), "", <<>>), NoData)
    /\ UNCHANGED <<kycApiUrl, kycEngineTimeoutMs, endpoint, input, slot, image, imageUrl, timer, net, fetches,
                   callState, callErr, exc, resp, payload, upstream, resolvedTimeoutMs, hops, guardVars>>

\* `${kycBaseUrl()}/verify-cnic` throws: KYC_API_URL is not set
ConfigMissing(r) ==
    /\ pc[r] = "resolve"
    /\ AllResolved(r)
    /\ ~SomeImageMissing(r)
    /\ kycBaseUrl(kycApiUrl).err # NoErr
    /\ exc' = [exc EXCEPT ![r] = kycBaseUrl(kycApiUrl).err]
    /\ pc' = [pc EXCEPT ![r] = "catch"]
    /\ UNCHANGED <<kycApiUrl, kycEngineTimeoutMs, endpoint, input, slot, image, imageUrl, timer, net, fetches,
                   callState, callErr, resp, payload, upstream, response, sent, resolvedTimeoutMs, hops, guardVars>>

DefaultTimeoutText == <<"6", "0", "0", "0", "0">>

DefaultTimeoutMs == 60000

NaN == [nan |-> TRUE, n |-> 0]

DigitValue(c) == CHOOSE d \in 0..9 : Digits[d + 1] = c

RECURSIVE DigitPrefix(_, _)
DigitPrefix(s, acc) ==
    IF s # <<>> /\ Head(s) \in Range(Digits)
    THEN DigitPrefix(Tail(s), acc * 10 + DigitValue(Head(s)))
    ELSE acc

\* Number.parseInt(s, 10): leading whitespace is skipped, a sign is read,
\* then the longest run of digits; NaN when there is no digit.
ParseInt(s) ==
    LET t == TrimStart(s)
        signed == t # <<>> /\ Head(t) \in {"+", "-"}
        u == IF signed THEN Tail(t) ELSE t
    IN  IF u = <<>> \/ Head(u) \notin Range(Digits) THEN NaN
        ELSE [nan |-> FALSE,
              n |-> IF signed /\ Head(t) = "-" THEN 0 - DigitPrefix(u, 0) ELSE DigitPrefix(u, 0)]

\* Lines 100-101: timeoutMs and resolvedTimeoutMs
ResolvedTimeoutMs(env) ==
    LET timeoutMs == ParseInt(OrElse(env, DefaultTimeoutText))
    IN  IF timeoutMs.nan THEN DefaultTimeoutMs ELSE timeoutMs.n

\* postJson arms its timer and calls fetchFn with the payload.
PostStart(r) ==
    /\ pc[r] = "resolve"
    /\ AllResolved(r)
    /\ ~SomeImageMissing(r)
    /\ kycBaseUrl(kycApiUrl).err = NoErr
    /\ payload' = [payload EXCEPT ![r] = UpstreamPayload(endpoint[r], image[r])]
    /\ callState' = [callState EXCEPT ![r]["post"] = "running"]
    /\ resolvedTimeoutMs' = [resolvedTimeoutMs EXCEPT ![r] = ResolvedTimeoutMs(kycEngineTimeoutMs)]
    /\ timer' = [timer EXCEPT ![r]["post"] = "pending"]
    /\ fetches' = [fetches EXCEPT ![r]["post"] = @ + 1]
    /\ net' = [net EXCEPT ![r]["post"] = "inflight"]
    /\ pc' = [pc EXCEPT ![r] = "post_fetch"]
    /\ UNCHANGED <<kycApiUrl, kycEngineTimeoutMs, endpoint, input, slot, image, imageUrl, callErr, exc, resp,
                   upstream, response, sent, hops, guardVars>>

----------------------------------------------------------------------------
(* Timers and the network *)

\* The call the task is suspended in
CurrentCall(r) == IF pc[r] \in {"post_fetch", "post_text", "post_catch"} THEN "post" ELSE DlCall(slot[r])

\* Mutant: the finally block does not clear the timer.
ClearTimeout_Forgotten(t) == t

\* clearTimeout(timer): a pending timer is cleared, a fired one stays fired
ClearTimeout(t) == IF t = "pending" THEN "cleared" ELSE t

\* Mutant: one AbortController is shared, so a timer aborts every call in flight.
TimerFire_SharedController(r) ==
    /\ pc[r] \in {"dl_fetch", "dl_arrayBuffer", "dl_text", "post_fetch", "post_text"}
    /\ timer[r][CurrentCall(r)] = "pending"
    /\ net[r][CurrentCall(r)] \in {"inflight", "headers"}
    /\ timer' = [timer EXCEPT ![r][CurrentCall(r)] = "fired"]
    /\ net' = [q \in DOMAIN net |->
                 [c \in Calls |-> IF net[q][c] \in {"inflight", "headers"} THEN "aborted" ELSE net[q][c]]]
    /\ UNCHANGED <<kycApiUrl, kycEngineTimeoutMs, pc, endpoint, input, slot, image, imageUrl, fetches,
                   callState, callErr, exc, resp, payload, upstream, response, sent,
                   resolvedTimeoutMs, hops, guardVars>>

\* setTimeout(() => controller.abort(), ms) fires while the task awaits the
\* network: the signal aborts the fetch or the body read in flight.
TimerFire(r) ==
    /\ pc[r] \in {"dl_fetch", "dl_arrayBuffer", "dl_text", "post_fetch", "post_text"}
    /\ LET c == CurrentCall(r)
       IN  /\ timer[r][c] = "pending"
           /\ net[r][c] \in {"inflight", "headers"}
           /\ timer' = [timer EXCEPT ![r][c] = "fired"]
           /\ net' = [net EXCEPT ![r][c] = "aborted"]
    /\ UNCHANGED <<kycApiUrl, kycEngineTimeoutMs, pc, endpoint, input, slot, image, imageUrl, fetches, callState,
                   callErr, exc, resp, payload, upstream, response, sent, resolvedTimeoutMs, hops, guardVars>>

----------------------------------------------------------------------------
(* downloadRemoteImageAsBase64, lines 62-87 *)

\* throw new Error(`HTTP ${resp.status} while downloading ${label}: ${body}`)
HttpError(status, label, body) ==
    [MkErr("Error", "UpstreamHttpError", label, <<>>) EXCEPT !.status = status, !.body = body]

\* await fetchFn(...) resolves with a response
DlResponse(r) ==
    /\ pc[r] = "dl_fetch"
    /\ net[r][DlCall(slot[r])] = "inflight"
    /\ \E status \in DownloadStatuses :
          /\ resp' = [resp EXCEPT ![r] = [status |-> status, text |-> ""]]
          /\ pc' = [pc EXCEPT ![r] = IF IsOk(status) THEN "dl_arrayBuffer" ELSE "dl_text"]
    /\ net' = [net EXCEPT ![r][DlCall(slot[r])] = "headers"]
    /\ hops' = [hops EXCEPT ![r] = <<>>]
    /\ UNCHANGED <<kycApiUrl, kycEngineTimeoutMs, endpoint, input, slot, image, imageUrl, timer, fetches, callState,
                   callErr, exc, payload, upstream, response, sent, resolvedTimeoutMs, guardVars>>

\* redirect: 'follow': the remote answers the GET in flight with a redirect
\* and fetchFn requests the target, up to MaxRedirects times.
DlRedirect(r) ==
    /\ pc[r] = "dl_fetch"
    /\ net[r][DlCall(slot[r])] = "inflight"
    /\ Len(hops[r]) <= MaxRedirects
    /\ \E target \in RedirectTargets : hops' = [hops EXCEPT ![r] = Append(@, target)]
    /\ UNCHANGED <<kycApiUrl, kycEngineTimeoutMs, pc, endpoint, input, slot, image, imageUrl,
                   timer, net, fetches, callState, callErr, exc, resp, payload, upstream,
                   response, sent, resolvedTimeoutMs, guardVars>>

\* await fetchFn(...) rejects: DNS, connection refused, TLS
DlFetchFail(r) ==
    /\ pc[r] = "dl_fetch"
    /\ net[r][DlCall(slot[r])] = "inflight"
    /\ net' = [net EXCEPT ![r][DlCall(slot[r])] = "failed"]
    /\ exc' = [exc EXCEPT ![r] = MkErr("TypeError", "FetchFailed", "", <<>>)]
    /\ pc' = [pc EXCEPT ![r] = "dl_catch"]
    /\ hops' = [hops EXCEPT ![r] = <<>>]
    /\ UNCHANGED <<kycApiUrl, kycEngineTimeoutMs, endpoint, input, slot, image, imageUrl, timer, fetches, callState,
                   callErr, resp, payload, upstream, response, sent, resolvedTimeoutMs, guardVars>>

\* Mutant: the abort cancels the request task, which never resumes.
DlAborted_TaskCancelled(r) ==
    /\ pc[r] \in {"dl_fetch", "dl_arrayBuffer", "dl_text"}
    /\ net[r][DlCall(slot[r])] = "aborted"
    /\ pc' = [pc EXCEPT ![r] = "cancelled"]
    /\ hops' = [hops EXCEPT ![r] = <<>>]
    /\ UNCHANGED <<kycApiUrl, kycEngineTimeoutMs, endpoint, input, slot, image, imageUrl, timer,
                   net, fetches, callState, callErr, exc, resp, payload, upstream, response,
                   sent, resolvedTimeoutMs, guardVars>>

\* The aborted await rejects with an AbortError; resp.text().catch(() => '')
\* swallows it and the code throws the HTTP error with an empty body.
DlAborted(r) ==
    /\ pc[r] \in {"dl_fetch", "dl_arrayBuffer", "dl_text"}
    /\ net[r][DlCall(slot[r])] = "aborted"
    /\ exc' = [exc EXCEPT ![r] =
                 IF pc[r] = "dl_text"
                 THEN HttpError(resp[r].status, Label(endpoint[r], slot[r]), "")
                 ELSE MkErr("AbortError", "Aborted", "", <<>>)]
    /\ pc' = [pc EXCEPT ![r] = "dl_catch"]
    /\ hops' = [hops EXCEPT ![r] = <<>>]
    /\ UNCHANGED <<kycApiUrl, kycEngineTimeoutMs, endpoint, input, slot, image, imageUrl, timer, net, fetches,
                   callState, callErr, resp, payload, upstream, response, sent, resolvedTimeoutMs, guardVars>>

\* await resp.arrayBuffer() resolves: the call returns the base64 text, the
\* finally block clears the timer, the handler normalizes the result.
DlArrayBuffer(r) ==
    /\ pc[r] = "dl_arrayBuffer"
    /\ net[r][DlCall(slot[r])] = "headers"
    /\ \E bytes \in DownloadBodies :
          image' = [image EXCEPT ![r][slot[r]] = normalizeBase64(ToBase64(bytes))]
    /\ net' = [net EXCEPT ![r][DlCall(slot[r])] = "complete"]
    /\ timer' = [timer EXCEPT ![r][DlCall(slot[r])] = ClearTimeout(@)]
    /\ callState' = [callState EXCEPT ![r][DlCall(slot[r])] = "returned"]
    /\ slot' = [slot EXCEPT ![r] = @ + 1]
    /\ pc' = [pc EXCEPT ![r] = "resolve"]
    /\ UNCHANGED <<kycApiUrl, kycEngineTimeoutMs, endpoint, input, imageUrl, fetches, callErr, exc, resp, payload,
                   upstream, response, sent, resolvedTimeoutMs, hops, guardVars>>

\* await resp.arrayBuffer() rejects: the connection broke while reading
DlArrayBufferFail(r) ==
    /\ pc[r] = "dl_arrayBuffer"
    /\ net[r][DlCall(slot[r])] = "headers"
    /\ net' = [net EXCEPT ![r][DlCall(slot[r])] = "failed"]
    /\ exc' = [exc EXCEPT ![r] = MkErr("TypeError", "FetchFailed", "", <<>>)]
    /\ pc' = [pc EXCEPT ![r] = "dl_catch"]
    /\ UNCHANGED <<kycApiUrl, kycEngineTimeoutMs, endpoint, input, slot, image, imageUrl, timer, fetches, callState,
                   callErr, resp, payload, upstream, response, sent, resolvedTimeoutMs, hops, guardVars>>

\* if (!resp.ok): the body is read and the HTTP error thrown
DlText(r) ==
    /\ pc[r] = "dl_text"
    /\ net[r][DlCall(slot[r])] = "headers"
    /\ \E text \in DownloadErrorTexts :
          exc' = [exc EXCEPT ![r] = HttpError(resp[r].status, Label(endpoint[r], slot[r]), text)]
    /\ net' = [net EXCEPT ![r][DlCall(slot[r])] = "complete"]
    /\ pc' = [pc EXCEPT ![r] = "dl_catch"]
    /\ UNCHANGED <<kycApiUrl, kycEngineTimeoutMs, endpoint, input, slot, image, imageUrl, timer, fetches, callState,
                   callErr, resp, payload, upstream, response, sent, resolvedTimeoutMs, hops, guardVars>>

\* resp.text() rejects: .catch(() => '') gives the empty body
DlTextFail(r) ==
    /\ pc[r] = "dl_text"
    /\ net[r][DlCall(slot[r])] = "headers"
    /\ exc' = [exc EXCEPT ![r] = HttpError(resp[r].status, Label(endpoint[r], slot[r]), "")]
    /\ net' = [net EXCEPT ![r][DlCall(slot[r])] = "failed"]
    /\ pc' = [pc EXCEPT ![r] = "dl_catch"]
    /\ UNCHANGED <<kycApiUrl, kycEngineTimeoutMs, endpoint, input, slot, image, imageUrl, timer, fetches, callState,
                   callErr, resp, payload, upstream, response, sent, resolvedTimeoutMs, hops, guardVars>>

\* catch (e), lines 80-84: the error the call throws for the caught e
DownloadError(e, label, normalized) ==
    IF IsAbort(e)
    THEN MkErr("Error", "Timeout", label, normalized)
    ELSE [MkErr("Error", "DownloadFailed", label, normalized) EXCEPT
             !.cause = e.kind, !.status = e.status, !.body = e.body]

\* catch (e) { ... } finally { clearTimeout(timer) }
DlCatch(r) ==
    /\ pc[r] = "dl_catch"
    /\ LET c == DlCall(slot[r])
           e == DownloadError(exc[r], Label(endpoint[r], slot[r]),
                              normalizeRemoteUrl(imageUrl[r][slot[r]]))
       IN  /\ exc' = [exc EXCEPT ![r] = e]
           /\ callErr' = [callErr EXCEPT ![r][c] = e]
           /\ callState' = [callState EXCEPT ![r][c] = "threw"]
           /\ timer' = [timer EXCEPT ![r][c] = ClearTimeout(@)]
    /\ pc' = [pc EXCEPT ![r] = "catch"]
    /\ UNCHANGED <<kycApiUrl, kycEngineTimeoutMs, endpoint, input, slot, image, imageUrl, net, fetches, resp,
                   payload, upstream, response, sent, resolvedTimeoutMs, hops, guardVars>>

----------------------------------------------------------------------------
(* postJson, lines 98-131 *)

\* `${kycBaseUrl()}/verify-cnic`
UpstreamUrl(r) == kycBaseUrl(kycApiUrl).base \o EndpointPath(endpoint[r])

PostResponse(r) ==
    /\ pc[r] = "post_fetch"
    /\ net[r]["post"] = "inflight"
    /\ \E status \in UpstreamStatuses : resp' = [resp EXCEPT ![r] = [status |-> status, text |-> ""]]
    /\ net' = [net EXCEPT ![r]["post"] = "headers"]
    /\ pc' = [pc EXCEPT ![r] = "post_text"]
    /\ UNCHANGED <<kycApiUrl, kycEngineTimeoutMs, endpoint, input, slot, image, imageUrl, timer, fetches, callState,
                   callErr, exc, payload, upstream, response, sent, resolvedTimeoutMs, hops, guardVars>>

\* fetchFn rejects, or resp.text() rejects while reading the body
PostFail(r) ==
    /\ pc[r] \in {"post_fetch", "post_text"}
    /\ net[r]["post"] = (IF pc[r] = "post_fetch" THEN "inflight" ELSE "headers")
    /\ net' = [net EXCEPT ![r]["post"] = "failed"]
    /\ exc' = [exc EXCEPT ![r] = MkErr("TypeError", "FetchFailed", "", <<>>)]
    /\ pc' = [pc EXCEPT ![r] = "post_catch"]
    /\ UNCHANGED <<kycApiUrl, kycEngineTimeoutMs, endpoint, input, slot, image, imageUrl, timer, fetches, callState,
                   callErr, resp, payload, upstream, response, sent, resolvedTimeoutMs, hops, guardVars>>

PostAborted(r) ==
    /\ pc[r] \in {"post_fetch", "post_text"}
    /\ net[r]["post"] = "aborted"
    /\ exc' = [exc EXCEPT ![r] = MkErr("AbortError", "Aborted", "", <<>>)]
    /\ pc' = [pc EXCEPT ![r] = "post_catch"]
    /\ UNCHANGED <<kycApiUrl, kycEngineTimeoutMs, endpoint, input, slot, image, imageUrl, timer, net, fetches,
                   callState, callErr, resp, payload, upstream, response, sent, resolvedTimeoutMs, hops, guardVars>>

\* Mutant: a non-2xx status is treated as a failed call.
PostResult_OkOnly(status, text) ==
    [returned |-> IsOk(status), ok |-> IsOk(status), status |-> status, data |-> ParseOrRaw(text)]

\* Lines 115-123: what postJson returns for a response that was read
PostResult(status, text) ==
    [returned |-> TRUE, ok |-> IsOk(status), status |-> status, data |-> ParseOrRaw(text)]

\* await resp.text() resolves; postJson parses, returns and clears its timer
PostText(r) ==
    /\ pc[r] = "post_text"
    /\ net[r]["post"] = "headers"
    /\ \E text \in UpstreamTexts :
          /\ resp' = [resp EXCEPT ![r] = [status |-> resp[r].status, text |-> text]]
          /\ upstream' = [upstream EXCEPT ![r] = PostResult(resp[r].status, text)]
    /\ net' = [net EXCEPT ![r]["post"] = "complete"]
    /\ timer' = [timer EXCEPT ![r]["post"] = ClearTimeout(@)]
    /\ callState' = [callState EXCEPT ![r]["post"] = "returned"]
    /\ pc' = [pc EXCEPT ![r] = "relay"]
    /\ UNCHANGED <<kycApiUrl, kycEngineTimeoutMs, endpoint, input, slot, image, imageUrl, fetches, callErr, exc,
                   payload, response, sent, resolvedTimeoutMs, hops, guardVars>>

\* Mutant: an abort is reported like any other transport failure.
PostError_AbortUnreachable(e, url, ms) ==
    [MkErr("Error", "UpstreamUnreachable", "", url) EXCEPT !.cause = e.kind]

\* catch (e), lines 124-128
PostError(e, url, ms) ==
    IF IsAbort(e)
    THEN [MkErr("Error", "UpstreamTimeout", "", url) EXCEPT !.ms = ms]
    ELSE [MkErr("Error", "UpstreamUnreachable", "", url) EXCEPT !.cause = e.kind]

\* Mutant: a transport failure is retried once instead of thrown.
PostCatch_Retry(r) ==
    /\ pc[r] = "post_catch"
    /\ fetches' = [fetches EXCEPT ![r]["post"] = @ + 1]
    /\ net' = [net EXCEPT ![r]["post"] = "inflight"]
    /\ timer' = [timer EXCEPT ![r]["post"] = "pending"]
    /\ pc' = [pc EXCEPT ![r] = "post_fetch"]
    /\ fetches[r]["post"] < 2
    /\ UNCHANGED <<kycApiUrl, kycEngineTimeoutMs, endpoint, input, slot, image, imageUrl, callState, callErr, exc,
                   resp, payload, upstream, response, sent, resolvedTimeoutMs, hops, guardVars>>

PostCatch(r) ==
    /\ pc[r] = "post_catch"
    /\ LET e == PostError(exc[r], UpstreamUrl(r), resolvedTimeoutMs[r])
       IN  /\ exc' = [exc EXCEPT ![r] = e]
           /\ callErr' = [callErr EXCEPT ![r]["post"] = e]
    /\ callState' = [callState EXCEPT ![r]["post"] = "threw"]
    /\ timer' = [timer EXCEPT ![r]["post"] = ClearTimeout(@)]
    /\ pc' = [pc EXCEPT ![r] = "catch"]
    /\ UNCHANGED <<kycApiUrl, kycEngineTimeoutMs, endpoint, input, slot, image, imageUrl, net, fetches, resp,
                   payload, upstream, response, sent, resolvedTimeoutMs, hops, guardVars>>

----------------------------------------------------------------------------
(* The handlers, after the network calls *)

\* Mutant: an upstream error status is answered with the gateway's own 500.
Relay_Own500(r) ==
    /\ pc[r] = "relay"
    /\ IF upstream[r].ok
       THEN Respond(r, upstream[r].status, NoErr, upstream[r].data)
       ELSE Respond(r, 500, MkErr("", "UpstreamFailed", "", <<>>), NoData)
    /\ UNCHANGED <<kycApiUrl, kycEngineTimeoutMs, endpoint, input, slot, image, imageUrl, timer, net, fetches,
                   callState, callErr, exc, resp, payload, upstream, resolvedTimeoutMs, hops, guardVars>>

\* return res.status(upstream.status).json(upstream.data)
Relay(r) ==
    /\ pc[r] = "relay"
    /\ Respond(r, upstream[r].status, NoErr, upstream[r].data)
    /\ UNCHANGED <<kycApiUrl, kycEngineTimeoutMs, endpoint, input, slot, image, imageUrl, timer, net, fetches,
                   callState, callErr, exc, resp, payload, upstream, resolvedTimeoutMs, hops, guardVars>>

\* Mutant: allow-list violations are answered as client errors.
HandlerCatch_ClientError(r) ==
    /\ pc[r] = "catch"
    /\ Respond(r, IF exc[r].kind \in {"InvalidUrl", "DisallowedScheme", "DisallowedHost"} THEN 400 ELSE 500,
               Message(exc[r]), NoData)
    /\ UNCHANGED <<kycApiUrl, kycEngineTimeoutMs, endpoint, input, slot, image, imageUrl, timer, net, fetches,
                   callState, callErr, exc, resp, payload, upstream, resolvedTimeoutMs, hops, guardVars>>

\* catch (e) { return res.status(500).json({ error: e?.message ?? String(e) }) }
HandlerCatch(r) ==
    /\ pc[r] = "catch"
    /\ Respond(r, 500, Message(exc[r]), NoData)
    /\ UNCHANGED <<kycApiUrl, kycEngineTimeoutMs, endpoint, input, slot, image, imageUrl, timer, net, fetches,
                   callState, callErr, exc, resp, payload, upstream, resolvedTimeoutMs, hops, guardVars>>

\* The response is out and the request's objects are dropped; the task can
\* serve the next request.
Finish(r) ==
    /\ pc[r] = "done"
    /\ pc' = [pc EXCEPT ![r] = "idle"]
    /\ endpoint' = [endpoint EXCEPT ![r] = "none"]
    /\ input' = [input EXCEPT ![r] = EmptyBody]
    /\ slot' = [slot EXCEPT ![r] = 1]
    /\ image' = [image EXCEPT ![r] = <<NULL, NULL>>]
    /\ imageUrl' = [imageUrl EXCEPT ![r] = <<NULL, NULL>>]
    /\ timer' = [timer EXCEPT ![r] = [c \in Calls |-> "none"]]
    /\ net' = [net EXCEPT ![r] = [c \in Calls |-> "none"]]
    /\ fetches' = [fetches EXCEPT ![r] = [c \in Calls |-> 0]]
    /\ callState' = [callState EXCEPT ![r] = [c \in Calls |-> "none"]]
    /\ callErr' = [callErr EXCEPT ![r] = [c \in Calls |-> NoErr]]
    /\ exc' = [exc EXCEPT ![r] = NoErr]
    /\ resp' = [resp EXCEPT ![r] = NoResp]
    /\ payload' = [payload EXCEPT ![r] = NoPayload]
    /\ upstream' = [upstream EXCEPT ![r] = NoUpstream]
    /\ response' = [response EXCEPT ![r] = NoResponse]
    /\ sent' = [sent EXCEPT ![r] = 0]
    /\ resolvedTimeoutMs' = [resolvedTimeoutMs EXCEPT ![r] = 0]
    /\ hops' = [hops EXCEPT ![r] = <<>>]
    /\ UNCHANGED <<kycApiUrl, kycEngineTimeoutMs, guardVars>>

Next ==
    \/ \E r \in DOMAIN pc : Receive(r)
    \/ \E r \in DOMAIN pc : SkipSlot(r)
    \/ \E r \in DOMAIN pc : DownloadRejected(r)
    \/ \E r \in DOMAIN pc : DownloadStart(r)
    \/ \E r \in DOMAIN pc : MissingImage(r)
    \/ \E r \in DOMAIN pc : ConfigMissing(r)
    \/ \E r \in DOMAIN pc : PostStart(r)
    \/ \E r \in DOMAIN pc : TimerFire(r)
    \/ \E r \in DOMAIN pc : DlResponse(r)
    \/ \E r \in DOMAIN pc : DlRedirect(r)
    \/ \E r \in DOMAIN pc : DlFetchFail(r)
    \/ \E r \in DOMAIN pc : DlAborted(r)
    \/ \E r \in DOMAIN pc : DlArrayBuffer(r)
    \/ \E r \in DOMAIN pc : DlArrayBufferFail(r)
    \/ \E r \in DOMAIN pc : DlText(r)
    \/ \E r \in DOMAIN pc : DlTextFail(r)
    \/ \E r \in DOMAIN pc : DlCatch(r)
    \/ \E r \in DOMAIN pc : PostResponse(r)
    \/ \E r \in DOMAIN pc : PostFail(r)
    \/ \E r \in DOMAIN pc : PostAborted(r)
    \/ \E r \in DOMAIN pc : PostText(r)
    \/ \E r \in DOMAIN pc : PostCatch(r)
    \/ \E r \in DOMAIN pc : Relay(r)
    \/ \E r \in DOMAIN pc : HandlerCatch(r)
    \/ \E r \in DOMAIN pc : Finish(r)

Spec == Init /\ [][Next]_vars

\* The steps of a request task from its start to its first await: one
\* synchronous run of the handler, cut at each slot.
Synchronous(r) ==
    \/ SkipSlot(r)
    \/ DownloadRejected(r)
    \/ DownloadStart(r)
    \/ MissingImage(r)
    \/ ConfigMissing(r)
    \/ PostStart(r)

\* The steps a request task takes once the promise it awaits has settled:
\* the event loop runs every continuation that is ready.
Continuation(r) ==
    \/ DlAborted(r)
    \/ DlCatch(r)
    \/ PostAborted(r)
    \/ PostCatch(r)
    \/ Relay(r)
    \/ HandlerCatch(r)

LiveInit ==
    /\ kycApiUrl \in {NULL, KycUrlSet}
    /\ kycEngineTimeoutMs = NULL
    /\ TaskInit(Tasks)
    /\ GuardIdle
    /\ Base64Idle

\* A request with one of LiveBodies arrives
ReceiveLive(r) ==
    /\ Receive(r)
    /\ input'[r] \in LiveBodies(endpoint'[r])

LiveNext ==
    \/ \E r \in DOMAIN pc : ReceiveLive(r)
    \/ \E r \in DOMAIN pc : SkipSlot(r)
    \/ \E r \in DOMAIN pc : DownloadRejected(r)
    \/ \E r \in DOMAIN pc : DownloadStart(r)
    \/ \E r \in DOMAIN pc : MissingImage(r)
    \/ \E r \in DOMAIN pc : ConfigMissing(r)
    \/ \E r \in DOMAIN pc : PostStart(r)
    \/ \E r \in DOMAIN pc : TimerFire(r)
    \/ \E r \in DOMAIN pc : DlResponse(r)
    \/ \E r \in DOMAIN pc : DlRedirect(r)
    \/ \E r \in DOMAIN pc : DlFetchFail(r)
    \/ \E r \in DOMAIN pc : DlAborted(r)
    \/ \E r \in DOMAIN pc : DlArrayBuffer(r)
    \/ \E r \in DOMAIN pc : DlArrayBufferFail(r)
    \/ \E r \in DOMAIN pc : DlText(r)
    \/ \E r \in DOMAIN pc : DlTextFail(r)
    \/ \E r \in DOMAIN pc : DlCatch(r)
    \/ \E r \in DOMAIN pc : PostResponse(r)
    \/ \E r \in DOMAIN pc : PostFail(r)
    \/ \E r \in DOMAIN pc : PostAborted(r)
    \/ \E r \in DOMAIN pc : PostText(r)
    \/ \E r \in DOMAIN pc : PostCatch(r)
    \/ \E r \in DOMAIN pc : Relay(r)
    \/ \E r \in DOMAIN pc : HandlerCatch(r)
    \/ \E r \in DOMAIN pc : Finish(r)

SpecLive ==
    /\ LiveInit
    /\ [][LiveNext]_vars
    /\ \A r \in Tasks :
          /\ WF_vars(TimerFire(r))
          /\ WF_vars(Continuation(r))
          /\ <>[](pc[r] = "resolve") => []<><<Synchronous(r)>>_vars

\* Two requests served at once
ConcTasks == {"t1", "t2"}

ConcInit ==
    /\ kycApiUrl \in {NULL, KycUrlSet}
    /\ kycEngineTimeoutMs = NULL
    /\ TaskInit(ConcTasks)
    /\ GuardIdle
    /\ Base64Idle

\* A /verify-cnic request with one of LiveBodies arrives
ReceiveConc(r) ==
    /\ Receive(r)
    /\ endpoint'[r] = "verify-cnic"
    /\ input'[r] \in LiveBodies("verify-cnic")

ConcNext ==
    \/ \E r \in DOMAIN pc : ReceiveConc(r)
    \/ \E r \in DOMAIN pc : SkipSlot(r)
    \/ \E r \in DOMAIN pc : DownloadRejected(r)
    \/ \E r \in DOMAIN pc : DownloadStart(r)
    \/ \E r \in DOMAIN pc : MissingImage(r)
    \/ \E r \in DOMAIN pc : ConfigMissing(r)
    \/ \E r \in DOMAIN pc : PostStart(r)
    \/ \E r \in DOMAIN pc : TimerFire(r)
    \/ \E r \in DOMAIN pc : DlResponse(r)
    \/ \E r \in DOMAIN pc : DlRedirect(r)
    \/ \E r \in DOMAIN pc : DlFetchFail(r)
    \/ \E r \in DOMAIN pc : DlAborted(r)
    \/ \E r \in DOMAIN pc : DlArrayBuffer(r)
    \/ \E r \in DOMAIN pc : DlArrayBufferFail(r)
    \/ \E r \in DOMAIN pc : DlText(r)
    \/ \E r \in DOMAIN pc : DlTextFail(r)
    \/ \E r \in DOMAIN pc : DlCatch(r)
    \/ \E r \in DOMAIN pc : PostResponse(r)
    \/ \E r \in DOMAIN pc : PostFail(r)
    \/ \E r \in DOMAIN pc : PostAborted(r)
    \/ \E r \in DOMAIN pc : PostText(r)
    \/ \E r \in DOMAIN pc : PostCatch(r)
    \/ \E r \in DOMAIN pc : Relay(r)
    \/ \E r \in DOMAIN pc : HandlerCatch(r)
    \/ \E r \in DOMAIN pc : Finish(r)

SpecConc == ConcInit /\ [][ConcNext]_vars

----------------------------------------------------------------------------
(* The guard on its own: assertAllowedRemoteUrl applied to URLs written    *)
(* from a scheme, a host and a path.  The host is up to MaxPrefixChunks    *)
(* chunks followed by one of the suffixes.                                 *)

MaxPrefixChunks == 2

CloudinaryCom == <<"c", "l", "o", "u", "d", "i", "n", "a", "r", "y", ".", "c", "o", "m">>
SchemeHttps == <<"h", "t", "t", "p", "s", ":", "/", "/">>
SchemeHttp == <<"h", "t", "t", "p", ":", "/", "/">>
SchemeHttpsUpper == <<"H", "T", "T", "P", "S", ":", "/", "/">>
SchemeFtp == <<"f", "t", "p", ":", "/", "/">>
ChunkRes == <<"r", "e", "s">>
ChunkFoo == <<"F", "o", "o">>
ChunkEvil == <<"e", "v", "i", "l">>
SuffixCloudinaryUpper == <<"C", "L", "O", "U", "D", "I", "N", "A", "R", "Y", ".", "C", "o", "m">>
SuffixCloudinaryEvil == <<"c", "l", "o", "u", "d", "i", "n", "a", "r", "y", ".", "c", "o", "m", ".", "e", "v", "i", "l", ".", "c", "o", "m">>
SuffixEvil == <<"e", "v", "i", "l", ".", "c", "o", "m">>
PathJpg == <<"/", "x", ".", "j", "p", "g">>

GuardSchemes == {SchemeHttps, SchemeHttp, SchemeHttpsUpper, SchemeFtp, <<>>}

HostChunks == {ChunkRes, ChunkFoo, ChunkEvil, <<".">>}

HostSuffixes == {<<>>, CloudinaryCom, SuffixCloudinaryUpper, SuffixCloudinaryEvil, SuffixEvil}

GuardPaths == {<<>>, PathJpg}

RECURSIVE Flatten(_)
Flatten(ss) == IF ss = <<>> THEN <<>> ELSE Head(ss) \o Flatten(Tail(ss))

HostPrefixes == {Flatten(cs) : cs \in UNION {[1..n -> HostChunks] : n \in 0..MaxPrefixChunks}}

GuardHosts == {p \o x : p \in HostPrefixes, x \in HostSuffixes} \ {<<>>}

GuardInit ==
    /\ kycApiUrl = NULL
    /\ kycEngineTimeoutMs = NULL
    /\ TaskInit(Tasks)
    /\ gPc = "call"
    /\ gScheme \in GuardSchemes
    /\ gHost \in GuardHosts
    /\ \E path \in GuardPaths : gUrl = gScheme \o gHost \o path
    /\ gOut = NoErr
    /\ Base64Idle

\* assertAllowedRemoteUrl(gUrl) runs to its return or its throw
GuardCall ==
    /\ gPc = "call"
    /\ gOut' = assertAllowedRemoteUrl(gUrl)
    /\ gPc' = "done"
    /\ UNCHANGED <<kycApiUrl, kycEngineTimeoutMs, pc, endpoint, input, slot, image, imageUrl, timer, net, fetches,
                   callState, callErr, exc, resp, payload, upstream, response, sent,
                   resolvedTimeoutMs, hops, gUrl, gScheme, gHost, bPc, bIn, bOut>>

GuardNext == GuardCall

SpecGuard == GuardInit /\ [][GuardNext]_vars

(* Claims about the guard *)

GuardHttps == ToLowerCase(gScheme) = SchemeHttps

GuardOtherScheme == gScheme # <<>> /\ ~GuardHttps

\* C2 as stated: an https URL passes exactly when its lower-cased host is
\* cloudinary.com or ends with ".cloudinary.com", and fails with
\* DisallowedHost otherwise.
C2_AsStated ==
    (gPc = "done" /\ GuardHttps) =>
        /\ (gOut = NoErr) <=> (ToLowerCase(gHost) = CloudinaryCom \/ EndsWith(ToLowerCase(gHost), DotCloudinaryCom))
        /\ gOut # NoErr => gOut.kind = "DisallowedHost"

\* C2, amended: an https URL passes exactly when its lower-cased host ends
\* with ".cloudinary.com" (res.cloudinary.com and foo.cloudinary.com in any
\* letter case included); every other host, the bare cloudinary.com
\* included, fails with DisallowedHost naming the lower-cased host.
C2_AllowedHosts ==
    (gPc = "done" /\ GuardHttps) =>
        /\ (gOut = NoErr) <=> EndsWith(ToLowerCase(gHost), DotCloudinaryCom)
        /\ gOut # NoErr => (gOut.kind = "DisallowedHost" /\ gOut.url = ToLowerCase(gHost))

C2_Witness ==
    /\ gPc = "done"
    /\ gScheme = SchemeHttps
    /\ gHost = ChunkFoo \o <<".">> \o SuffixCloudinaryUpper
    /\ gOut = NoErr

\* C3: a parsable URL whose scheme is not https fails with DisallowedScheme
\* whatever its host, allowed or not.
C3_SchemeFirst ==
    (gPc = "done" /\ GuardOtherScheme) => (gOut.kind = "DisallowedScheme" /\ gOut.url = gUrl)

C3_Witness ==
    /\ gPc = "done"
    /\ gScheme = SchemeHttp
    /\ gHost = SuffixEvil
    /\ gOut.kind = "DisallowedScheme"

----------------------------------------------------------------------------
(* Claims about the handlers *)

\* The URL passes the allow-list after normalization.
UrlAllowed(u) ==
    /\ Truthy(u)
    /\ LET n == RemoveWhitespace(u)
       IN  /\ n # <<>>
           /\ assertAllowedRemoteUrl(n) = NoErr

GuardErrorKinds == {"MissingUrl", "InvalidUrl", "DisallowedScheme", "DisallowedHost"}

\* C1: a GET is issued only for a URL that passed the allow-list; a
\* download call whose URL is missing, unparsable, non-https or on a
\* disallowed host throws a guard error with no GET issued by it and no
\* upstream POST issued by its handler.
C1_GuardBeforeGet ==
    \A r \in DOMAIN pc : \A s \in Slots :
        /\ fetches[r][DlCall(s)] > 0 => UrlAllowed(imageUrl[r][s])
        /\ (callState[r][DlCall(s)] # "none" /\ ~UrlAllowed(imageUrl[r][s])) =>
              /\ callState[r][DlCall(s)] = "threw"
              /\ callErr[r][DlCall(s)].kind \in GuardErrorKinds
              /\ fetches[r][DlCall(s)] = 0
              /\ net[r][DlCall(s)] = "none"
              /\ fetches[r]["post"] = 0

C1_Witness ==
    \E r \in DOMAIN pc :
        /\ pc[r] = "done"
        /\ imageUrl[r][1] = UrlHttp
        /\ callErr[r]["dl1"].kind = "DisallowedScheme"
        /\ response[r].status = 500
        /\ \A c \in Calls : fetches[r][c] = 0

\* C4 as stated: a download call whose timer fired (it fires only while the
\* fetch or a body read is pending) has its network call aborted and throws
\* the Timeout error naming the URL.
C4_TimeoutOnExpiry ==
    \A r \in DOMAIN pc : \A s \in Slots :
        timer[r][DlCall(s)] = "fired" =>
            /\ net[r][DlCall(s)] = "aborted"
            /\ callState[r][DlCall(s)] = "threw" =>
                  /\ callErr[r][DlCall(s)].kind = "Timeout"
                  /\ callErr[r][DlCall(s)].url = normalizeRemoteUrl(imageUrl[r][s])

\* C5: once postJson has returned, the handler's response is upstream's
\* status and upstream's parsed-or-raw body, for every status.
C5_RelayVerbatim ==
    \A r \in DOMAIN pc :
        (pc[r] = "done" /\ callState[r]["post"] = "returned") =>
            /\ response[r].status = resp[r].status
            /\ response[r].data.text = resp[r].text
            /\ response[r].data.kind = (IF resp[r].text \in JsonTexts THEN "json" ELSE "raw")
            /\ response[r].error = NoErr
            /\ sent[r] = 1

C5_Witness ==
    \E r \in DOMAIN pc :
        /\ pc[r] = "done"
        /\ callState[r]["post"] = "returned"
        /\ resp[r].status = 500
        /\ response[r].status = 500
        /\ response[r].data.kind = "raw"

\* C6: the upstream POST is issued only when every slot of the request is
\* resolved to non-empty data and every download of the request has
\* completed; a failed or unresolved slot means no POST, and a failed
\* download for the first slot means no download for the second.
C6_PostAfterResolution ==
    \A r \in DOMAIN pc :
        /\ fetches[r]["post"] > 0 =>
              \A s \in 1..NumSlots(endpoint[r]) :
                  /\ Truthy(image[r][s])
                  /\ callState[r][DlCall(s)] \in {"none", "returned"}
                  /\ net[r][DlCall(s)] \in {"none", "complete"}
        /\ (\E s \in Slots : callState[r][DlCall(s)] = "threw") => fetches[r]["post"] = 0
        /\ (pc[r] = "done" /\ \E s \in 1..NumSlots(endpoint[r]) : ~Truthy(image[r][s])) =>
              fetches[r]["post"] = 0
        /\ callState[r]["dl1"] = "threw" => (callState[r]["dl2"] = "none" /\ fetches[r]["dl2"] = 0)

C6_Witness ==
    \E r \in DOMAIN pc :
        /\ pc[r] = "done"
        /\ endpoint[r] = "face-verify"
        /\ callErr[r]["dl1"].kind = "DownloadFailed"
        /\ imageUrl[r][2] = UrlGood
        /\ ~Truthy(image[r][2])
        /\ fetches[r] = [c \in Calls |-> IF c = "dl1" THEN 1 ELSE 0]

\* The slot has no usable inline value and its URL is absent, null, empty
\* or whitespace-only.
SlotMissing(r, s) ==
    /\ ~Truthy(InlineImage(endpoint[r], s, input[r]))
    /\ normalizeRemoteUrl(OrChain(input[r], UrlFields(endpoint[r], s))) = NULL

\* C7 as stated: a request with a slot that has neither inline data nor a
\* URL is answered with the fixed 400 missing-image response, with no
\* upstream call.
C7_MissingImage400 ==
    \A r \in DOMAIN pc :
        (pc[r] = "done" /\ \E s \in 1..NumSlots(endpoint[r]) : SlotMissing(r, s)) =>
            /\ response[r].status = 400
            /\ response[r].error.kind = MissingImageKind(endpoint[r])
            /\ fetches[r]["post"] = 0

CoreFailureKinds ==
    {"InvalidUrl", "DisallowedScheme", "DisallowedHost", "Timeout", "DownloadFailed",
     "UpstreamTimeout", "UpstreamUnreachable", "ConfigMissing"}

\* C8: a request in which a core step failed other than by a missing
\* image/URL is answered, once, with status 500 and { error: message }.
C8_Failure500 ==
    \A r \in DOMAIN pc :
        /\ (pc[r] = "done" /\ exc[r].kind \in CoreFailureKinds) =>
              /\ response[r].status = 500
              /\ response[r].error.kind = exc[r].kind
              /\ response[r].error.url = exc[r].url
              /\ response[r].error.label = exc[r].label
              /\ response[r].data = NoData
              /\ sent[r] = 1
        /\ (\E c \in Calls : callErr[r][c].kind \in CoreFailureKinds) =>
              (pc[r] \in {"catch", "done"} /\ exc[r].kind \in CoreFailureKinds)
        /\ pc[r] = "catch" => (sent[r] = 0 /\ ENABLED HandlerCatch(r))

C8_Witness ==
    \E r \in DOMAIN pc :
        /\ pc[r] = "done"
        /\ exc[r].kind = "Timeout"
        /\ response[r].status = 500
        /\ response[r].error.kind = "Timeout"

\* C9: for every upstream response whose body was read, postJson returns
\* { status, data }, data being the parsed JSON or { raw: text }, whatever
\* the status; it does not throw.
C9_PostJsonTotal ==
    \A r \in DOMAIN pc :
        net[r]["post"] = "complete" =>
            /\ callState[r]["post"] = "returned"
            /\ callErr[r]["post"] = NoErr
            /\ upstream[r].returned
            /\ upstream[r].status = resp[r].status
            /\ upstream[r].data =
                  [kind |-> IF resp[r].text \in JsonTexts THEN "json" ELSE "raw", text |-> resp[r].text]

C9_Witness ==
    \E r \in DOMAIN pc :
        /\ net[r]["post"] = "complete"
        /\ resp[r].status = 422
        /\ upstream[r].status = 422
        /\ upstream[r].data.kind = "raw"

\* C10: no retries: a call never invokes fetchFn twice, a started postJson
\* has issued exactly one POST and a download that reached its try block
\* exactly one GET, whatever the outcome.
C10_NoRetry ==
    \A r \in DOMAIN pc :
        /\ \A c \in Calls : fetches[r][c] <= 1
        /\ callState[r]["post"] # "none" => fetches[r]["post"] = 1
        /\ \A s \in Slots : callState[r][DlCall(s)] \in {"running", "returned"} => fetches[r][DlCall(s)] = 1

C10_Witness ==
    \E r \in DOMAIN pc :
        /\ pc[r] = "done"
        /\ callErr[r]["post"].kind = "UpstreamUnreachable"
        /\ fetches[r] = [c \in Calls |-> IF c = "dl2" THEN 0 ELSE 1]

----------------------------------------------------------------------------
(* normalizeBase64 on its own: inputs are a head followed by up to         *)
(* MaxTailLen characters.                                                  *)

MaxTailLen == 3

DataNoComma == <<"d", "a", "t", "a", ":", "i", "m", "a", "g", "e", "/", "p", "n", "g", ";", "b", "a", "s", "e", "6", "4">>

Base64Heads == {<<>>, <<" ">>, DataColon, <<" ">> \o DataColon, <<"d", "a", "t", "a">>, DataNoComma}

TailChars == {",", " ", "Q", ":"}

Base64Tails == UNION {[1..n -> TailChars] : n \in 0..MaxTailLen}

Base64Inputs == {NULL} \cup {h \o t : h \in Base64Heads, t \in Base64Tails}

Base64Init ==
    /\ kycApiUrl = NULL
    /\ kycEngineTimeoutMs = NULL
    /\ TaskInit(Tasks)
    /\ GuardIdle
    /\ bPc = "call"
    /\ bIn \in Base64Inputs
    /\ bOut = NULL

\* normalizeBase64(bIn) runs to its return
Base64Call ==
    /\ bPc = "call"
    /\ bOut' = normalizeBase64(bIn)
    /\ bPc' = "done"
    /\ UNCHANGED <<kycApiUrl, kycEngineTimeoutMs, pc, endpoint, input, slot, image, imageUrl, timer, net, fetches,
                   callState, callErr, exc, resp, payload, upstream, response, sent,
                   resolvedTimeoutMs, hops, gPc, gUrl, gOut, gScheme, gHost, bIn>>

Base64Next == Base64Call

SpecBase64 == Base64Init /\ [][Base64Next]_vars

(* Claims about normalizeBase64 *)

AllSpace(s) == \A i \in 1..Len(s) : IsSpace(s[i])

HasDataPrefix(s) ==
    /\ Len(s) >= 5
    /\ s[1] = "d" /\ s[2] = "a" /\ s[3] = "t" /\ s[4] = "a" /\ s[5] = ":"
    /\ \E i \in 1..Len(s) : s[i] = ","

\* The characters of s after its first comma
AfterFirstComma(s) ==
    LET i == CHOOSE k \in 1..Len(s) : s[k] = "," /\ \A j \in 1..(k - 1) : s[j] # ","
    IN  [k \in 1..(Len(s) - i) |-> s[i + k]]

\* C11 as stated: null, empty and whitespace-only input yield null; an
\* input that begins with 'data:' ... ',' yields everything after its first
\* comma; every other input yields the input trimmed.
C11_AsStated ==
    bPc = "done" =>
        bOut = (IF bIn = NULL \/ AllSpace(bIn) THEN NULL
                ELSE IF HasDataPrefix(bIn) THEN AfterFirstComma(bIn)
                ELSE Trim(bIn))

\* C11, amended: null, empty and whitespace-only input yield null; the
\* input is trimmed first, and a trimmed input that begins with 'data:' and
\* holds a comma yields everything after its first comma (not trimmed
\* again, possibly empty); every other input yields the trimmed input.
C11_TrimFirst ==
    bPc = "done" =>
        bOut = (IF bIn = NULL \/ AllSpace(bIn) THEN NULL
                ELSE IF HasDataPrefix(Trim(bIn)) THEN AfterFirstComma(Trim(bIn))
                ELSE Trim(bIn))

C11_Witness ==
    /\ bPc = "done"
    /\ bIn = <<" ", "d", "a", "t", "a", ":", ",", " ", "Q">>
    /\ bOut = <<" ", "Q">>

----------------------------------------------------------------------------
(* Claims about slot resolution, timers and payloads *)

\* The inline value the handler reads for the slot is non-empty after
\* normalization.
InlineGiven(r, s) ==
    /\ s <= NumSlots(endpoint[r])
    /\ LET v == OrChain(input[r], InlineFields(endpoint[r], s))
       IN  v # NULL /\ ~AllSpace(v) /\ normalizeBase64(v) # <<>>

UrlGiven(r, s) ==
    /\ s <= NumSlots(endpoint[r])
    /\ LET u == OrChain(input[r], UrlFields(endpoint[r], s)) IN u # NULL /\ u # <<>>

\* C12: a slot whose inline value is non-empty after normalization never
\* has a GET issued for it, with or without a URL; a download is started
\* only for a slot with no usable inline value and a URL.
C12_InlinePreferred ==
    \A r \in DOMAIN pc : \A s \in Slots :
        pc[r] # "idle" =>
            /\ InlineGiven(r, s) => (callState[r][DlCall(s)] = "none" /\ fetches[r][DlCall(s)] = 0)
            /\ callState[r][DlCall(s)] # "none" => (~InlineGiven(r, s) /\ UrlGiven(r, s))

C12_Witness ==
    \E r \in DOMAIN pc :
        /\ pc[r] = "done"
        /\ endpoint[r] = "verify-cnic"
        /\ input[r]["image"] = InlineDataUri
        /\ input[r]["cnicFrontUrl"] = UrlGood
        /\ fetches[r] = [c \in Calls |-> IF c = "post" THEN 1 ELSE 0]
        /\ response[r].status = 200

\* C13: once a call has returned or thrown, its timer is not pending: it
\* was never created (the call threw before its try block), or it was
\* cleared, or it fired.
C13_NoTimerOutlivesCall ==
    \A r \in DOMAIN pc : \A c \in Calls :
        /\ callState[r][c] = "returned" => timer[r][c] = "cleared"
        /\ callState[r][c] = "threw" =>
              timer[r][c] = (IF fetches[r][c] = 0 THEN "none"
                             ELSE IF net[r][c] = "aborted" THEN "fired" ELSE "cleared")
        /\ pc[r] \in {"catch", "relay", "done"} => timer[r][c] # "pending"

C13_Witness ==
    \E r \in DOMAIN pc :
        /\ callState[r]["dl1"] = "threw"
        /\ net[r]["dl1"] = "complete"
        /\ timer[r]["dl1"] = "cleared"
        /\ callState[r]["post"] = "none"

\* C15 as stated: a GET that completes with a non-success status makes the
\* download throw an UpstreamHttpError carrying the status and the label;
\* DownloadFailed is thrown only after a transport failure.
C15_HttpErrorKind ==
    \A r \in DOMAIN pc : \A s \in Slots :
        (callState[r][DlCall(s)] = "threw" /\ slot[r] = s /\ timer[r][DlCall(s)] = "cleared") =>
            /\ (net[r][DlCall(s)] = "complete" /\ ~IsOk(resp[r].status)) =>
                  /\ callErr[r][DlCall(s)].kind = "UpstreamHttpError"
                  /\ callErr[r][DlCall(s)].status = resp[r].status
                  /\ callErr[r][DlCall(s)].label = Label(endpoint[r], s)
            /\ callErr[r][DlCall(s)].kind = "DownloadFailed" => net[r][DlCall(s)] = "failed"

PayloadImage(p, s) == IF s = 1 THEN p.image1 ELSE p.image2

PayloadDataUri(p, s) == IF s = 1 THEN p.image1DataUri ELSE p.image2DataUri

\* C18 as stated: in every upstream payload each image field is a non-empty
\* string with no data-URI prefix, and its DataUri sibling is
\* 'data:image/jpeg;base64,' followed by exactly that value.
C18_PayloadWellFormed ==
    \A r \in DOMAIN pc :
        fetches[r]["post"] > 0 =>
            \A s \in 1..NumSlots(endpoint[r]) :
                /\ PayloadImage(payload[r], s) \notin {NULL, <<>>}
                /\ ~StartsWith(PayloadImage(payload[r], s), DataColon)
                /\ PayloadDataUri(payload[r], s) = DataUriPrefix \o PayloadImage(payload[r], s)

\* The first of the fields whose value is usable, or NULL
RECURSIVE FirstUsableInline(_, _)
FirstUsableInline(body, fields) ==
    IF fields = <<>> THEN NULL
    ELSE IF Truthy(normalizeBase64(body[Head(fields)])) THEN normalizeBase64(body[Head(fields)])
    ELSE FirstUsableInline(body, Tail(fields))

RECURSIVE FirstUsableUrl(_, _)
FirstUsableUrl(body, fields) ==
    IF fields = <<>> THEN NULL
    ELSE IF Truthy(normalizeRemoteUrl(body[Head(fields)])) THEN body[Head(fields)]
    ELSE FirstUsableUrl(body, Tail(fields))

\* C19 as stated: of a slot's aliases, the first whose value is non-empty
\* after normalization wins, also after an earlier alias that is blank.
C19_FirstUsableAliasWins ==
    \A r \in DOMAIN pc : \A s \in Slots :
        (pc[r] = "resolve" /\ slot[r] = 1 /\ s <= NumSlots(endpoint[r])) =>
            LET b64 == FirstUsableInline(input[r], InlineFields(endpoint[r], s))
                url == FirstUsableUrl(input[r], UrlFields(endpoint[r], s))
            IN  /\ b64 # NULL => image[r][s] = b64
                /\ url # NULL => imageUrl[r][s] = url

\* C14: when postJson's timer fires while the POST is in flight (before
\* the headers or during the body read) the call is aborted and postJson
\* throws UpstreamTimeout with the endpoint URL and the delay the timer was
\* armed with (60000 when KYC_ENGINE_TIMEOUT_MS is unset, 250 when it is
\* '250'); every other failure of the POST throws UpstreamUnreachable with
\* the cause and the endpoint URL.
C14_PostTimeoutError ==
    \A r \in DOMAIN pc :
        /\ timer[r]["post"] = "fired" => net[r]["post"] = "aborted"
        /\ callState[r]["post"] = "threw" =>
              LET e == callErr[r]["post"]
              IN  IF timer[r]["post"] = "fired"
                  THEN /\ e.kind = "UpstreamTimeout"
                       /\ e.url = UpstreamUrl(r)
                       /\ e.ms = resolvedTimeoutMs[r]
                       /\ kycEngineTimeoutMs \in {NULL, <<>>} => e.ms = DefaultTimeoutMs
                       /\ kycEngineTimeoutMs = Timeout250 => e.ms = 250
                  ELSE /\ e.kind = "UpstreamUnreachable"
                       /\ e.cause = "FetchFailed"
                       /\ e.url = UpstreamUrl(r)

C14_Witness ==
    \E r \in DOMAIN pc :
        /\ pc[r] = "done"
        /\ kycEngineTimeoutMs = Timeout250
        /\ timer[r]["post"] = "fired"
        /\ resp[r].status = 200
        /\ callErr[r]["post"].kind = "UpstreamTimeout"
        /\ callErr[r]["post"].ms = 250
        /\ response[r].status = 500

\* C20 as stated: every URL a remote image GET requests, the targets of the
\* redirects it follows included, is an https URL of an allow-listed host.
C20_EveryHopAllowed ==
    \A r \in DOMAIN pc : \A i \in 1..Len(hops[r]) : UrlAllowed(hops[r][i])

\* C16: every request a handler accepted is eventually answered, and
\* answered once: a task that left "idle" reaches "done" with exactly one
\* response sent, also when the network never answers, and at no point has
\* a task sent more than one response.
C16_EventuallyOneResponse ==
    \A r \in Tasks :
        /\ (pc[r] \notin {"idle", "done"}) ~> (pc[r] = "done" /\ sent[r] = 1)
        /\ [](sent[r] <= 1 /\ (pc[r] = "done" => sent[r] = 1))

C16_Witness ==
    \E r \in DOMAIN pc :
        /\ pc[r] = "done"
        /\ sent[r] = 1
        /\ timer[r]["dl1"] = "fired"
        /\ callErr[r]["dl1"].kind = "Timeout"
        /\ response[r].status = 500

\* Everything the model keeps for one request
TaskState(r) ==
    <<pc[r], endpoint[r], input[r], slot[r], image[r], imageUrl[r], timer[r], net[r], fetches[r],
      callState[r], callErr[r], exc[r], resp[r], payload[r], upstream[r], response[r], sent[r],
      resolvedTimeoutMs[r], hops[r]>>

\* What the handler answers, from the request's own calls
OwnResponse(r) ==
    IF upstream[r].returned
    THEN [status |-> upstream[r].status, error |-> NoErr, data |-> upstream[r].data]
    ELSE IF exc[r] = NoErr
    THEN [status |-> 400, error |-> MkErr("", MissingImageKind(endpoint[r]), "", <<>>), data |-> NoData]
    ELSE [status |-> 500, error |-> Message(exc[r]), data |-> NoData]

\* A call is aborted exactly when its own timer fired, a timeout error comes
\* from the call's own timer, and the response is the one the request's own
\* calls produce.
OwnOutcome(r) ==
    /\ \A c \in Calls :
          /\ net[r][c] = "aborted" <=> timer[r][c] = "fired"
          /\ callErr[r][c].kind \in {"Timeout", "UpstreamTimeout"} => timer[r][c] = "fired"
    /\ pc[r] = "done" => response[r] = OwnResponse(r)

\* C17: with two requests in flight, every step changes the state of one
\* request only (a timer that fires aborts its own call and leaves the
\* other request's timers, calls and outcome as they were), and each
\* request's aborts, timeout errors and response come from its own calls.
C17_NoCrossRequestEffect ==
    /\ [](\A r \in DOMAIN pc : OwnOutcome(r))
    /\ [][\A r \in DOMAIN pc : \A q \in DOMAIN pc \ {r} :
             TaskState(r)' # TaskState(r) => TaskState(q)' = TaskState(q)]_vars

C17_Witness ==
    /\ pc["t1"] = "done"
    /\ timer["t1"]["dl1"] = "fired"
    /\ callErr["t1"]["dl1"].kind = "Timeout"
    /\ response["t1"].status = 500
    /\ input["t2"] = input["t1"]
    /\ pc["t2"] = "dl_arrayBuffer"
    /\ timer["t2"]["dl1"] = "pending"
    /\ net["t2"]["dl1"] = "headers"

====
